---- MODULE Spec2Model ----
(***************************************************************************)
(* Model of the LeadFlowX nightly scoring job (src/job.py).                *)
(*                                                                         *)
(* Every invocation of run() is a process.  The processes share the store  *)
(* (the scoring_jobs table, the raw_leads table and the config table) and  *)
(* interleave at the granularity of the store statements they execute.     *)
(* A store statement either succeeds or raises (a store-access fault).     *)
(* Time is counted in hours (the unit of the staleness threshold), dates   *)
(* in days.                                                                *)
(***************************************************************************)
EXTENDS Integers, Sequences, FiniteSets, TLC

\* ------------------------------------------------------------------ bounds
NumProcs == 2          \* invocations of run()
MaxTicks == 1          \* times the clock advances
MaxLeads == 2          \* rows of raw_leads

\* ------------------------------------------------------ program constants
max_retries == 3       \* connect_db
InitialRetryDelay == 5 \* connect_db: retry_delay
StaleHours == 4        \* check_job_lock: INTERVAL '4 hours'
RetentionDays == 30    \* cleanup_old_jobs: INTERVAL '30 days'
ScoreCap == 100        \* calculate_lead_score: min(score, 100)

Procs == 1..NumProcs

\* Dates are day numbers; the day of the run is late enough for records older
\* than the retention period to exist.
CurrentDate == RetentionDays + 1

\* The clock starts late enough for records older than the staleness
\* threshold to exist.
StartClock == StaleHours + 1

NoTime == 0 - 1        \* SQL NULL in end_time
NoJob == 0             \* self.job_id = None (ids of the store start at 1)

VARIABLES
    jobs,            \* scoring_jobs: set of rows [id, job_date, status, leads_processed, start_time, end_time]
    next_id,         \* the id sequence of scoring_jobs
    now,             \* the clock, in hours
    ticks,           \* times the clock has advanced
    raw_leads,       \* raw_leads in created_at DESC order
    config_rows,     \* config: sequence of rows [key, value]
    pc,              \* position of each invocation of run()
    conn,            \* self.conn: "none" | "open" | "aborted" (open, its transaction failed) | "closed"
    job_id,          \* self.job_id
    attempt,         \* connect_db: attempt
    retry_delay,     \* connect_db: retry_delay
    sleeps,          \* connect_db: the delays passed to time.sleep, in order
    stale_rows,      \* check_job_lock: ids updated by the uncommitted reclaim UPDATE
    count,           \* update_lead_scores: its local leads_processed
    leads_processed, \* run: its local leads_processed
    error,           \* run: TRUE when the except branch (lines 296-300) was taken
    success,         \* main: value returned by run(); exit_code is derived from it
    faulted,         \* the functions of this invocation in which a store statement raised
    lock,            \* value returned by check_job_lock: "none" | "granted" | "denied"
    lead,            \* scoring function on its own: the lead
    scoring_config,  \* scoring function on its own: the configuration
    load_result,     \* scoring function on its own: "none" | "loaded" | "read_failed"
    new_score        \* scoring function on its own: <<>>, or <<result>> once computed

vars == <<jobs, next_id, now, ticks, raw_leads, config_rows, pc, conn, job_id,
          attempt, retry_delay, sleeps, stale_rows, count, leads_processed, error,
          success, faulted, lock, lead, scoring_config, load_result, new_score>>

storeVars == <<jobs, next_id>>
clockVars == <<now, ticks>>
scoreVars == <<lead, scoring_config, load_result, new_score>>
tableVars == <<raw_leads, config_rows>>
connectVars == <<attempt, retry_delay, sleeps>>
loopVars == <<count>>

\* ------------------------------------------------------------------ strings
\* A Python str is a tuple of one-character strings; None is a value that is
\* no str.
None == <<"None">>

https_prefix == <<"h","t","t","p","s",":","/","/">>
dot_com == <<".","c","o","m">>
dot_org == <<".","o","r","g">>
dot_net == <<".","n","e","t">>

\* str.startswith
startswith(s, prefix) ==
    /\ Len(s) >= Len(prefix)
    /\ SubSeq(s, 1, Len(prefix)) = prefix

\* the `in` operator on two str
contains(s, sub) ==
    \E i \in 1..(Len(s) - Len(sub) + 1) : SubSeq(s, i, i + Len(sub) - 1) = sub

lower_char(c) ==
    CASE c = "A" -> "a" [] c = "B" -> "b" [] c = "C" -> "c" [] c = "D" -> "d"
      [] c = "E" -> "e" [] c = "F" -> "f" [] c = "G" -> "g" [] c = "H" -> "h"
      [] c = "I" -> "i" [] c = "J" -> "j" [] c = "K" -> "k" [] c = "L" -> "l"
      [] c = "M" -> "m" [] c = "N" -> "n" [] c = "O" -> "o" [] c = "P" -> "p"
      [] c = "Q" -> "q" [] c = "R" -> "r" [] c = "S" -> "s" [] c = "T" -> "t"
      [] c = "U" -> "u" [] c = "V" -> "v" [] c = "W" -> "w" [] c = "X" -> "x"
      [] c = "Y" -> "y" [] c = "Z" -> "z" [] OTHER -> c

\* str.lower
lower(s) == [i \in 1..Len(s) |-> lower_char(s[i])]

max(a, b) == IF a >= b THEN a ELSE b
min(a, b) == IF a <= b THEN a ELSE b

\* ------------------------------------------------------------ configuration
\* get_scoring_config: default_config.  audit_score_weight is 0.4 in the
\* source; it is read nowhere, and is kept here in tenths.
default_config ==
    [k \in {"audit_score_weight", "audit_score_threshold", "audit_score_points",
            "employee_count_min", "employee_count_max", "employee_count_points",
            "email_exists_points", "website_ssl_points", "company_size_bonus"} |->
        CASE k = "audit_score_weight" -> 4
          [] k = "audit_score_threshold" -> 50
          [] k = "audit_score_points" -> 10
          [] k = "employee_count_min" -> 1
          [] k = "employee_count_max" -> 250
          [] k = "employee_count_points" -> 5
          [] k = "email_exists_points" -> 2
          [] k = "website_ssl_points" -> 3
          [] k = "company_size_bonus" -> 8]

\* float(row['value']): the values of the config table are str or NULL; the
\* strings of decimal digits, with or without a leading minus sign, are the
\* ones that parse here, anything else raises ValueError (TypeError for None).
Digits == {"0","1","2","3","4","5","6","7","8","9"}

digit_value(c) ==
    CASE c = "0" -> 0 [] c = "1" -> 1 [] c = "2" -> 2 [] c = "3" -> 3 [] c = "4" -> 4
      [] c = "5" -> 5 [] c = "6" -> 6 [] c = "7" -> 7 [] c = "8" -> 8 [] c = "9" -> 9

float_parses(v) ==
    /\ v # None
    /\ Len(v) > 0
    /\ \A i \in 1..Len(v) : v[i] \in Digits \/ (i = 1 /\ v[i] = "-" /\ Len(v) > 1)

RECURSIVE float(_)
float(v) ==
    IF v = <<>> THEN 0
    ELSE IF v[1] = "-" THEN 0 - float(Tail(v))
    ELSE 10 * float(SubSeq(v, 1, Len(v) - 1)) + digit_value(v[Len(v)])

\* WHERE key LIKE 'scoring_%': the keys of the config table that match.
like_scoring(key) ==
    key \in {"scoring_audit_score_threshold", "scoring_audit_score_points",
             "scoring_employee_count_min", "scoring_employee_count_max",
             "scoring_employee_count_points", "scoring_email_exists_points",
             "scoring_website_ssl_points", "scoring_company_size_bonus"}

\* config[row['key']] = float(row['value']), skipped when float raises
RECURSIVE overlay(_, _)
overlay(cfg, rows) ==
    IF rows = <<>> THEN cfg
    ELSE LET row == Head(rows)
             upd == IF like_scoring(row.key) /\ float_parses(row.value)
                    THEN [k \in DOMAIN cfg \cup {row.key} |->
                             IF k = row.key THEN float(row.value) ELSE cfg[k]]
                    ELSE cfg
         IN overlay(upd, Tail(rows))

\* get_scoring_config; read_fault: the SELECT on config raised
get_scoring_config(rows, read_fault) ==
    IF read_fault THEN default_config ELSE overlay(default_config, rows)

\* ------------------------------------------------------------------ scoring
\* calculate_lead_score.  The result is [ok |-> TRUE, value |-> score], or
\* [ok |-> FALSE, ...] when the function raises: len(None) raises TypeError
\* and None.startswith raises AttributeError (dict.get returns the stored
\* None, not the default, for a key that is present).
audit_term(l, cfg) ==
    IF l.audit_score >= cfg["audit_score_threshold"] THEN cfg["audit_score_points"] ELSE 0

\* variant: the estimate without its lower bound of 1
estimated_employees_unclamped(l) == Len(l.company) * 10

estimated_employees(l) == max(1, Len(l.company) * 10)

employee_term(l, cfg) ==
    IF /\ cfg["employee_count_min"] <= estimated_employees(l)
       /\ estimated_employees(l) <= cfg["employee_count_max"]
    THEN cfg["employee_count_points"] ELSE 0

email_term(l, cfg) ==
    IF l.email # None /\ l.email # <<>> THEN cfg["email_exists_points"] ELSE 0

ssl_term(l, cfg) ==
    IF startswith(l.website, https_prefix) THEN cfg["website_ssl_points"] ELSE 0

bonus_term(l, cfg) ==
    IF \E domain \in {dot_com, dot_org, dot_net} : contains(lower(l.website), domain)
    THEN cfg["company_size_bonus"] ELSE 0

calculate_lead_score(l, cfg) ==
    IF l.company = None \/ l.website = None
    THEN [ok |-> FALSE, value |-> 0]
    ELSE [ok |-> TRUE,
          value |-> min(audit_term(l, cfg) + employee_term(l, cfg) + email_term(l, cfg)
                        + ssl_term(l, cfg) + bonus_term(l, cfg), ScoreCap)]

\* -------------------------------------------------------------------- store
\* self.job_date = date.today()
job_date == CurrentDate

Row(id, d, st, n, start, end) ==
    [id |-> id, job_date |-> d, status |-> st, leads_processed |-> n,
     start_time |-> start, end_time |-> end]

\* Contents of scoring_jobs when the invocations start.  Either rows 31 and
\* 30 days old, a row of the day before and a row of the day that have both
\* been running for 5 hours, and a completed row of the day; or a single row
\* of the day that has been running for exactly 4 hours.
InitialStores ==
    { { Row(1, job_date - RetentionDays - 1, "completed", 2, 0, 0),
        Row(2, job_date - RetentionDays, "failed", 0, 0, 0),
        Row(3, job_date - 1, "running", 0, StartClock - StaleHours - 1, NoTime),
        Row(4, job_date, "completed", 1, 0, 1),
        Row(5, job_date, "running", 0, StartClock - StaleHours - 1, NoTime) },
      { Row(1, job_date, "running", 0, StartClock - StaleHours, NoTime) } }

MaxId(S) == IF S = {} THEN 0 ELSE CHOOSE m \in {j.id : j \in S} : \A j \in S : j.id <= m

\* Rows of raw_leads: email, company, website (id and correlation_id play no
\* part in the score).
ExampleLead ==
    [email |-> <<>>, company |-> <<>>,
     website |-> <<"h","t","t","p","s",":","/","/","e","x","a","m","p","l","e",".","c","o","m">>]
NullCompanyLead ==
    [email |-> <<"a","@","b">>, company |-> None, website |-> <<>>]

\* Contents of raw_leads: n rows, a row whose company is NULL before each row
\* that has one.
LeadTable(n) == [i \in 1..n |-> IF i % 2 = 1 THEN NullCompanyLead ELSE ExampleLead]

\* Contents of raw_leads when the invocations start: filled, or, beside the
\* single-row store, empty.
InitialLeads(S) ==
    IF Cardinality(S) = 1 THEN {LeadTable(0), LeadTable(MaxLeads)}
    ELSE {LeadTable(MaxLeads)}

\* update_lead_scores: lead_dict = dict(lead); lead_dict['audit_score'] = 0
lead_dict(row) ==
    [email |-> row.email, company |-> row.company, website |-> row.website, audit_score |-> 0]

\* The state of the invocations before run() is called.
InitRuns ==
    /\ now = StartClock
    /\ ticks = 0
    /\ pc = [p \in Procs |-> "connect"]
    /\ conn = [p \in Procs |-> "none"]
    /\ job_id = [p \in Procs |-> NoJob]
    /\ attempt = [p \in Procs |-> 0]
    /\ retry_delay = [p \in Procs |-> InitialRetryDelay]
    /\ sleeps = [p \in Procs |-> <<>>]
    /\ stale_rows = [p \in Procs |-> {}]
    /\ count = [p \in Procs |-> 0]
    /\ leads_processed = [p \in Procs |-> 0]
    /\ error = [p \in Procs |-> FALSE]
    /\ success = [p \in Procs |-> FALSE]
    /\ faulted = [p \in Procs |-> {}]
    /\ lock = [p \in Procs |-> "none"]

Init ==
    /\ jobs \in InitialStores
    /\ next_id = MaxId(jobs) + 1
    /\ raw_leads \in InitialLeads(jobs)
    /\ config_rows = <<>>
    /\ InitRuns
    /\ lead = None
    /\ scoring_config = None
    /\ load_result = "none"
    /\ new_score = <<>>

\* ------------------------------------------------------------ run(): exits
Fault(p, where) == faulted' = [faulted EXCEPT ![p] = @ \cup {where}]

\* run() returns: the finally clause closes the connection if there is one
\* (the server then rolls back the open transaction and releases its row
\* locks), and main() derives the exit code from the returned value.
Return(p, value) ==
    /\ pc' = [pc EXCEPT ![p] = "done"]
    /\ success' = [success EXCEPT ![p] = value]
    /\ conn' = [conn EXCEPT ![p] = IF @ \in {"open", "aborted"} THEN "closed" ELSE @]
    /\ stale_rows' = [stale_rows EXCEPT ![p] = {}]

\* main: exit_code = 0 if success else 1
exit_code(p) == IF success[p] THEN 0 ELSE 1

\* --------------------------------------------------------------- connect_db
\* variant: the loop sleeps after its last failed attempt too
ConnectDbSleepsAlways(p) ==
    /\ pc[p] = "connect"
    /\ \/ /\ conn' = [conn EXCEPT ![p] = "open"]
          /\ pc' = [pc EXCEPT ![p] = "lock_reclaim"]
          /\ attempt' = [attempt EXCEPT ![p] = 0]
          /\ retry_delay' = [retry_delay EXCEPT ![p] = InitialRetryDelay]
          /\ sleeps' = [sleeps EXCEPT ![p] = <<>>]
          /\ UNCHANGED <<success, stale_rows>>
       \/ /\ attempt' = [attempt EXCEPT ![p] = @ + 1]
          /\ sleeps' = [sleeps EXCEPT ![p] = Append(@, retry_delay[p])]
          /\ retry_delay' = [retry_delay EXCEPT ![p] = @ * 2]
          /\ IF attempt[p] < max_retries - 1
             THEN UNCHANGED <<pc, conn, success, stale_rows>>
             ELSE Return(p, FALSE)
    /\ UNCHANGED faulted
    /\ UNCHANGED <<storeVars, clockVars, tableVars, job_id, loopVars, leads_processed,
                   error, lock, scoreVars>>

\* One iteration of the retry loop.  attempt and retry_delay are locals; they
\* and the record of the sleeps are dropped when connect_db returns True.
ConnectDb(p) ==
    /\ pc[p] = "connect"
    /\ \/ /\ conn' = [conn EXCEPT ![p] = "open"]
          /\ pc' = [pc EXCEPT ![p] = "lock_reclaim"]
          /\ attempt' = [attempt EXCEPT ![p] = 0]
          /\ retry_delay' = [retry_delay EXCEPT ![p] = InitialRetryDelay]
          /\ sleeps' = [sleeps EXCEPT ![p] = <<>>]
          /\ UNCHANGED <<success, stale_rows>>
       \/ /\ attempt' = [attempt EXCEPT ![p] = @ + 1]
          /\ IF attempt[p] < max_retries - 1
             THEN /\ sleeps' = [sleeps EXCEPT ![p] = Append(@, retry_delay[p])]
                  /\ retry_delay' = [retry_delay EXCEPT ![p] = @ * 2]
                  /\ UNCHANGED <<pc, conn, success, stale_rows>>
             ELSE /\ Return(p, FALSE)
                  /\ UNCHANGED <<sleeps, retry_delay>>
    /\ UNCHANGED faulted
    /\ UNCHANGED <<storeVars, clockVars, tableVars, job_id, loopVars, leads_processed,
                   error, lock, scoreVars>>

\* ----------------------------------------------------------- check_job_lock
\* A row that another connection has updated and not committed is locked: a
\* second UPDATE of it waits for the end of that transaction.
RowLocked(p, id) == \E q \in Procs \ {p} : id \in stale_rows[q]

\* WHERE job_date = %s AND status = 'running' (lines 72-76)
RunningRows(d) == {j \in jobs : j.job_date = d /\ j.status = "running"}

\* variant: the reclaim without its job_date condition
StaleJobsAnyDate(d) ==
    {j \in jobs : j.status = "running" /\ j.start_time < now - StaleHours}

\* WHERE job_date = %s AND status = 'running' AND start_time < NOW() - INTERVAL '4 hours'
StaleJobs(d) ==
    {j \in jobs : j.job_date = d /\ j.status = "running" /\ j.start_time < now - StaleHours}

\* variant: a denial that returns without closing the connection
DeniedLeak(p) ==
    /\ lock' = [lock EXCEPT ![p] = "denied"]
    /\ pc' = [pc EXCEPT ![p] = "done"]
    /\ success' = [success EXCEPT ![p] = FALSE]
    /\ stale_rows' = [stale_rows EXCEPT ![p] = {}]
    /\ UNCHANGED conn

\* except Exception: return False (lines 97-99), then run() returns False
Denied(p) ==
    /\ lock' = [lock EXCEPT ![p] = "denied"]
    /\ Return(p, FALSE)

\* variant: the reclaim UPDATE without its start_time condition
LockReclaimAnyAge(p) ==
    /\ pc[p] = "lock_reclaim"
    /\ \/ /\ \A j \in RunningRows(job_date) : ~RowLocked(p, j.id)
          /\ IF RunningRows(job_date) # {}
             THEN /\ stale_rows' = [stale_rows EXCEPT ![p] = {j.id : j \in RunningRows(job_date)}]
                  /\ pc' = [pc EXCEPT ![p] = "lock_commit"]
             ELSE /\ pc' = [pc EXCEPT ![p] = "lock_running"]
                  /\ UNCHANGED stale_rows
          /\ UNCHANGED <<lock, success, conn, faulted>>
       \/ /\ Fault(p, "check_job_lock")
          /\ Denied(p)
    /\ UNCHANGED <<storeVars, clockVars, tableVars, job_id, connectVars, loopVars,
                   leads_processed, error, scoreVars>>

\* lines 58-68: the reclaim UPDATE
LockReclaim(p) ==
    /\ pc[p] = "lock_reclaim"
    /\ \/ /\ \A j \in StaleJobs(job_date) : ~RowLocked(p, j.id)
          /\ IF StaleJobs(job_date) # {}
             THEN /\ stale_rows' = [stale_rows EXCEPT ![p] = {j.id : j \in StaleJobs(job_date)}]
                  /\ pc' = [pc EXCEPT ![p] = "lock_commit"]
             ELSE /\ pc' = [pc EXCEPT ![p] = "lock_running"]
                  /\ UNCHANGED stale_rows
          /\ UNCHANGED <<lock, success, conn, faulted>>
       \/ /\ Fault(p, "check_job_lock")
          /\ Denied(p)
    /\ UNCHANGED <<storeVars, clockVars, tableVars, job_id, connectVars, loopVars,
                   leads_processed, error, scoreVars>>

\* variant: the reclaim is left uncommitted when the check goes on
LockCommitSkipped(p) ==
    /\ pc[p] = "lock_commit"
    /\ \/ /\ pc' = [pc EXCEPT ![p] = "lock_running"]
          /\ UNCHANGED <<jobs, stale_rows, lock, success, conn, faulted>>
       \/ /\ Fault(p, "check_job_lock")
          /\ Denied(p)
          /\ UNCHANGED jobs
    /\ UNCHANGED <<next_id, clockVars, tableVars, job_id, connectVars, loopVars,
                   leads_processed, error, scoreVars>>

\* line 69: the commit of the reclaim
LockCommit(p) ==
    /\ pc[p] = "lock_commit"
    /\ \/ /\ jobs' = {IF j.id \in stale_rows[p] THEN [j EXCEPT !.status = "failed"] ELSE j
                      : j \in jobs}
          /\ stale_rows' = [stale_rows EXCEPT ![p] = {}]
          /\ pc' = [pc EXCEPT ![p] = "lock_running"]
          /\ UNCHANGED <<lock, success, conn, faulted>>
       \/ /\ Fault(p, "check_job_lock")
          /\ Denied(p)
          /\ UNCHANGED jobs
    /\ UNCHANGED <<next_id, clockVars, tableVars, job_id, connectVars, loopVars,
                   leads_processed, error, scoreVars>>

\* variant: a fault of the running-record query is taken for "no row found"
LockSelectRunningFailOpen(p) ==
    /\ pc[p] = "lock_running"
    /\ \/ /\ \E j \in jobs : j.job_date = job_date /\ j.status = "running"
          /\ Denied(p)
          /\ UNCHANGED faulted
       \/ /\ ~ \E j \in jobs : j.job_date = job_date /\ j.status = "running"
          /\ pc' = [pc EXCEPT ![p] = "lock_completed"]
          /\ UNCHANGED <<lock, success, conn, stale_rows, faulted>>
       \/ /\ Fault(p, "check_job_lock")
          /\ pc' = [pc EXCEPT ![p] = "lock_completed"]
          /\ UNCHANGED <<lock, success, conn, stale_rows>>
    /\ UNCHANGED <<storeVars, clockVars, tableVars, job_id, connectVars, loopVars,
                   leads_processed, error, scoreVars>>

\* lines 72-81: the running-record query
LockSelectRunning(p) ==
    /\ pc[p] = "lock_running"
    /\ \/ /\ \E j \in jobs : j.job_date = job_date /\ j.status = "running"
          /\ Denied(p)
          /\ UNCHANGED faulted
       \/ /\ ~ \E j \in jobs : j.job_date = job_date /\ j.status = "running"
          /\ pc' = [pc EXCEPT ![p] = "lock_completed"]
          /\ UNCHANGED <<lock, success, conn, stale_rows, faulted>>
       \/ /\ Fault(p, "check_job_lock")
          /\ Denied(p)
    /\ UNCHANGED <<storeVars, clockVars, tableVars, job_id, connectVars, loopVars,
                   leads_processed, error, scoreVars>>

\* variant: the stricter policy of line 94, a completed row denies
LockSelectCompletedStrict(p) ==
    /\ pc[p] = "lock_completed"
    /\ \/ /\ \E j \in jobs : j.job_date = job_date /\ j.status = "completed"
          /\ Denied(p)
          /\ UNCHANGED faulted
       \/ /\ ~ \E j \in jobs : j.job_date = job_date /\ j.status = "completed"
          /\ lock' = [lock EXCEPT ![p] = "granted"]
          /\ pc' = [pc EXCEPT ![p] = "create"]
          /\ UNCHANGED <<success, conn, stale_rows, faulted>>
       \/ /\ Fault(p, "check_job_lock")
          /\ Denied(p)
    /\ UNCHANGED <<storeVars, clockVars, tableVars, job_id, connectVars, loopVars,
                   leads_processed, error, scoreVars>>

\* lines 84-96: the completed-record query; a completed row is logged only
LockSelectCompleted(p) ==
    /\ pc[p] = "lock_completed"
    /\ \/ /\ lock' = [lock EXCEPT ![p] = "granted"]
          /\ pc' = [pc EXCEPT ![p] = "create"]
          /\ UNCHANGED <<success, conn, stale_rows, faulted>>
       \/ /\ Fault(p, "check_job_lock")
          /\ Denied(p)
    /\ UNCHANGED <<storeVars, clockVars, tableVars, job_id, connectVars, loopVars,
                   leads_processed, error, scoreVars>>

\* -------------------------------------------------------- create_job_record
\* INSERT ... RETURNING id, then commit.  A fault of the INSERT leaves job_id
\* unset; a fault of the commit comes after line 110 has set it.  Both roll
\* back and make run() return False.
CreateJobRecord(p) ==
    /\ pc[p] = "create"
    /\ \/ /\ jobs' = jobs \cup {Row(next_id, job_date, "running", 0, now, NoTime)}
          /\ next_id' = next_id + 1
          /\ job_id' = [job_id EXCEPT ![p] = next_id]
          /\ pc' = [pc EXCEPT ![p] = "scoring"]
          /\ UNCHANGED <<success, conn, stale_rows, faulted>>
       \/ /\ Fault(p, "create_job_record")
          /\ Return(p, FALSE)
          /\ UNCHANGED <<storeVars, job_id>>
       \/ /\ Fault(p, "create_job_record")
          /\ next_id' = next_id + 1
          /\ job_id' = [job_id EXCEPT ![p] = next_id]
          /\ Return(p, FALSE)
          /\ UNCHANGED jobs
    /\ UNCHANGED <<clockVars, tableVars, connectVars, loopVars, leads_processed, error,
                   lock, scoreVars>>

\* ------------------------------------------------------- update_lead_scores
\* except Exception: rollback; raise (lines 220-223), caught by run() at line
\* 296, which finalizes with its own leads_processed.
ScoringRaises(p) ==
    /\ Fault(p, "update_lead_scores")
    /\ error' = [error EXCEPT ![p] = TRUE]
    /\ pc' = [pc EXCEPT ![p] = "finalize"]

\* variant: the count is incremented before the lead is scored
count_all(rows, cfg) == Len(rows)

\* lines 198-216: the loop over the leads.  A lead whose scoring raises is
\* logged and skipped; the others increment the count.
RECURSIVE count_scored(_, _)
count_scored(rows, cfg) ==
    IF rows = <<>> THEN 0
    ELSE (IF calculate_lead_score(lead_dict(Head(rows)), cfg).ok THEN 1 ELSE 0)
         + count_scored(Tail(rows), cfg)

\* update_lead_scores as called at line 282.  The configuration is loaded (a
\* fault of that read is absorbed by get_scoring_config); then either the
\* SELECT of the leads raises, or the leads are scored and the function
\* returns its count to run(), or an exception is raised in the cursor block
\* once the leads are scored.  The loop touches nothing but locals and the log.
UpdateLeadScores(p) ==
    /\ pc[p] = "scoring"
    /\ \/ /\ ScoringRaises(p)
          /\ count' = [count EXCEPT ![p] = 0]
          /\ UNCHANGED leads_processed
       \/ /\ \E read_fault \in BOOLEAN :
                LET config == get_scoring_config(config_rows, read_fault)
                IN  count' = [count EXCEPT ![p] = count_scored(raw_leads, config)]
          /\ \/ /\ leads_processed' = [leads_processed EXCEPT ![p] = count'[p]]
                /\ pc' = [pc EXCEPT ![p] = "cleanup"]
                /\ UNCHANGED <<faulted, error>>
             \/ /\ ScoringRaises(p)
                /\ UNCHANGED leads_processed
    /\ UNCHANGED <<storeVars, clockVars, tableVars, conn, job_id, connectVars, stale_rows,
                   success, lock, scoreVars>>

\* --------------------------------------------------------- cleanup_old_jobs
\* variant: the DELETE takes the rows that are exactly 30 days old too
CleanupOldJobsInclusive(p) ==
    /\ pc[p] = "cleanup"
    /\ \/ /\ jobs' = {j \in jobs : ~(j.job_date <= CurrentDate - RetentionDays)}
          /\ UNCHANGED <<faulted, conn>>
       \/ /\ Fault(p, "cleanup_old_jobs")
          /\ conn' = [conn EXCEPT ![p] = "aborted"]
          /\ UNCHANGED jobs
    /\ pc' = [pc EXCEPT ![p] = "finalize"]
    /\ UNCHANGED <<next_id, clockVars, tableVars, job_id, connectVars, stale_rows,
                   loopVars, leads_processed, error, success, lock, scoreVars>>

\* DELETE ... WHERE job_date < CURRENT_DATE - INTERVAL '30 days', then commit.
\* A fault is logged only (lines 238-239): unlike lines 116 and 222 the except
\* clause does not roll back, so the transaction of the connection stays
\* failed and the store refuses its next statement.
CleanupOldJobs(p) ==
    /\ pc[p] = "cleanup"
    /\ \/ /\ jobs' = {j \in jobs : ~(j.job_date < CurrentDate - RetentionDays)}
          /\ UNCHANGED <<faulted, conn>>
       \/ /\ Fault(p, "cleanup_old_jobs")
          /\ conn' = [conn EXCEPT ![p] = "aborted"]
          /\ UNCHANGED jobs
    /\ pc' = [pc EXCEPT ![p] = "finalize"]
    /\ UNCHANGED <<next_id, clockVars, tableVars, job_id, connectVars, stale_rows,
                   loopVars, leads_processed, error, success, lock, scoreVars>>

\* ------------------------------------------------------------- complete_job
\* variant: the status does not depend on the error
final_status_completed(err) == "completed"

\* status = 'failed' if error else 'completed'
final_status(err) == IF err THEN "failed" ELSE "completed"

\* variant: a fault of the finalizing write makes run() return False
CompleteJobFaultFails(p) ==
    /\ pc[p] = "finalize"
    /\ \/ /\ job_id[p] # NoJob
          /\ conn[p] = "open"
          /\ ~RowLocked(p, job_id[p])
          /\ jobs' = {IF j.id = job_id[p]
                      THEN [j EXCEPT !.status = final_status(error[p]),
                                     !.leads_processed = leads_processed[p],
                                     !.end_time = now]
                      ELSE j : j \in jobs}
          /\ UNCHANGED faulted
          /\ Return(p, ~error[p])
       \/ /\ job_id[p] # NoJob
          /\ Fault(p, "complete_job")
          /\ UNCHANGED jobs
          /\ Return(p, FALSE)
       \/ /\ job_id[p] = NoJob
          /\ UNCHANGED <<jobs, faulted>>
          /\ Return(p, ~error[p])
    /\ UNCHANGED <<next_id, clockVars, tableVars, job_id, connectVars, loopVars,
                   leads_processed, error, lock, scoreVars>>

\* UPDATE ... WHERE id = %s, then commit; a fault is logged only.  The UPDATE
\* faults when the transaction of the connection has failed.  run() then
\* returns True (line 294) or False (line 300).
CompleteJob(p) ==
    /\ pc[p] = "finalize"
    /\ \/ /\ job_id[p] # NoJob
          /\ conn[p] = "open"
          /\ ~RowLocked(p, job_id[p])
          /\ jobs' = {IF j.id = job_id[p]
                      THEN [j EXCEPT !.status = final_status(error[p]),
                                     !.leads_processed = leads_processed[p],
                                     !.end_time = now]
                      ELSE j : j \in jobs}
          /\ UNCHANGED faulted
       \/ /\ job_id[p] # NoJob
          /\ Fault(p, "complete_job")
          /\ UNCHANGED jobs
       \/ /\ job_id[p] = NoJob
          /\ UNCHANGED <<jobs, faulted>>
    /\ Return(p, ~error[p])
    /\ UNCHANGED <<next_id, clockVars, tableVars, job_id, connectVars, loopVars,
                   leads_processed, error, lock, scoreVars>>

\* -------------------------------------------------------------------- clock
\* The statements are executed at instants that lie 5 hours apart, one hour
\* more than the staleness threshold.
Tick ==
    /\ ticks < MaxTicks
    /\ now' = now + StaleHours + 1
    /\ ticks' = ticks + 1
    /\ UNCHANGED <<storeVars, tableVars, pc, conn, job_id, connectVars, stale_rows,
                   loopVars, leads_processed, error, success, faulted, lock, scoreVars>>

Next ==
    \/ \E p \in Procs : ConnectDb(p)
    \/ \E p \in Procs : LockReclaim(p)
    \/ \E p \in Procs : LockCommit(p)
    \/ \E p \in Procs : LockSelectRunning(p)
    \/ \E p \in Procs : LockSelectCompleted(p)
    \/ \E p \in Procs : CreateJobRecord(p)
    \/ \E p \in Procs : UpdateLeadScores(p)
    \/ \E p \in Procs : CleanupOldJobs(p)
    \/ \E p \in Procs : CompleteJob(p)
    \/ Tick

Spec == Init /\ [][Next]_vars

\* ------------------------------------------------------ connect_db on its own
\* The invocations as far as the end of connect_db, while time passes.  run()
\* is synchronous: an invocation that is inside connect_db goes on to its next
\* attempt (time.sleep returns).
ConnectNext ==
    \/ \E p \in Procs : ConnectDb(p)
    \/ Tick

ConnectSpec ==
    Init /\ [][ConnectNext]_vars /\ \A p \in Procs : WF_vars(ConnectDb(p))

\* ------------------------------------------ the scoring function on its own
\* calculate_lead_score and get_scoring_config applied to inputs drawn from
\* the sets below.
Emails == { <<>>, None, <<"a","@","b">> }

Companies ==
    { <<>>, None, <<"A","c","m","e">>,
      <<"a","b","c","d","e","f","g","h","i","j","k","l","m",
        "n","o","p","q","r","s","t","u","v","w","x","y","z">> }

Websites ==
    { <<>>, None,
      <<"h","t","t","p","s",":","/","/","e","x","a","m","p","l","e",".","c","o","m">>,
      <<"h","t","t","p",":","/","/","e","x","a","m","p","l","e",".","c","o","m">>,
      <<"H","T","T","P","S",":","/","/","E","X","A","M","P","L","E",".","O","R","G">>,
      <<"h","t","t","p","s",":","/","/","e","x","a","m","p","l","e",".","i","o">>,
      <<"c","o","m","p","a","n","y",".","n","e","t",".","e","x","a","m","p","l","e">> }

AuditScores == {0, 50}

LeadInputs ==
    [email : Emails, company : Companies, website : Websites, audit_score : AuditScores]

ConfigTables ==
    { <<>>,
      << [key |-> "scoring_audit_score_points", value |-> <<"1","5">>] >>,
      << [key |-> "scoring_audit_score_points", value |-> <<"a","b","c">>],
         [key |-> "scoring_website_ssl_points", value |-> <<"7">>] >>,
      << [key |-> "scoring_email_exists_points", value |-> <<"-","5">>] >> }

\* Configurations handed to calculate_lead_score: the defaults; the defaults
\* with a negative email_exists_points; every point value 60; every point
\* value 0 but email_exists_points = 2.
PointKeys ==
    {"audit_score_points", "employee_count_points", "email_exists_points",
     "website_ssl_points", "company_size_bonus"}

ScoringConfigs ==
    { default_config,
      [default_config EXCEPT !["email_exists_points"] = 0 - 5],
      [k \in DOMAIN default_config |-> IF k \in PointKeys THEN 60 ELSE default_config[k]],
      [k \in DOMAIN default_config |->
          IF k = "email_exists_points" THEN 2
          ELSE IF k \in PointKeys THEN 0 ELSE default_config[k]] }

ScoreInit ==
    /\ jobs = {}
    /\ next_id = 1
    /\ raw_leads = <<>>
    /\ config_rows \in ConfigTables
    /\ InitRuns
    /\ lead \in LeadInputs
    /\ scoring_config \in ScoringConfigs
    /\ load_result = "none"
    /\ new_score = <<>>

runVars == <<storeVars, clockVars, raw_leads, pc, conn, job_id, connectVars, stale_rows,
             loopVars, leads_processed, error, success, faulted, lock>>

\* config = self.get_scoring_config()
LoadConfig ==
    /\ new_score = <<>>
    /\ load_result = "none"
    /\ scoring_config = default_config
    /\ \E read_fault \in BOOLEAN :
          /\ scoring_config' = get_scoring_config(config_rows, read_fault)
          /\ load_result' = IF read_fault THEN "read_failed" ELSE "loaded"
    /\ UNCHANGED <<runVars, config_rows, lead, new_score>>

\* new_score = self.calculate_lead_score(lead_dict, config)
Score ==
    /\ new_score = <<>>
    /\ new_score' = <<calculate_lead_score(lead, scoring_config)>>
    /\ UNCHANGED <<runVars, config_rows, lead, scoring_config, load_result>>

ScoreNext == LoadConfig \/ Score

ScoreSpec == ScoreInit /\ [][ScoreNext]_vars

\* =================================================================== claims
RunningToday == {j \in jobs : j.job_date = job_date /\ j.status = "running"}
CompletedToday == {j \in jobs : j.job_date = job_date /\ j.status = "completed"}
LockPcs == {"lock_reclaim", "lock_commit", "lock_running", "lock_completed"}
\* a row that the reclaim has set to failed: failed rows of finished runs have
\* an end_time
ReclaimedToday ==
    {j \in jobs : j.job_date = job_date /\ j.status = "failed" /\ j.end_time = NoTime}

\* C1: in every reachable state of the store at most one row of the job date
\* has status running.
AtMostOneRunning == Cardinality(RunningToday) <= 1

\* C2 as stated: at most one row of the job date ever has status completed.
AtMostOneCompleted == Cardinality(CompletedToday) <= 1

\* C2: every invocation has a row of its own, and a row of an invocation is
\* completed only if that invocation has returned success; so each invocation
\* brings at most one row, its own, to completed.
CompletedOnlyBySuccessfulRun ==
    /\ \A p, q \in Procs : (p # q /\ job_id[p] # NoJob) => job_id[p] # job_id[q]
    /\ \A p \in Procs : \A j \in jobs :
          (j.id = job_id[p] /\ j.status = "completed") => (pc[p] = "done" /\ success[p])

TwoRunsCompleted ==
    \E p, q \in Procs :
       /\ p # q /\ success[p] /\ success[q]
       /\ \E j, k \in CompletedToday : j.id = job_id[p] /\ k.id = job_id[q]

\* C3: a lock check that meets no fault sets to failed exactly the rows of
\* the job date that are running and started more than 4 hours ago, and
\* changes nothing else in the table.
StaleNow(j) ==
    j.job_date = job_date /\ j.status = "running" /\ now - j.start_time > StaleHours

ReclaimEffect(p) ==
    CASE pc[p] = "lock_reclaim" /\ pc'[p] \in {"lock_commit", "lock_running"} ->
            /\ jobs' = jobs
            /\ stale_rows'[p] = {j.id : j \in {r \in jobs : StaleNow(r)}}
      [] pc[p] = "lock_commit" /\ pc'[p] = "lock_running" ->
            /\ \A j \in jobs : j.id \in stale_rows[p] => StaleNow(j)
            /\ jobs' = {IF j.id \in stale_rows[p] THEN [j EXCEPT !.status = "failed"] ELSE j
                        : j \in jobs}
      [] OTHER -> jobs' = jobs

ReclaimChangesExactlyStaleRows ==
    [][\A p \in Procs : (pc[p] \in LockPcs /\ pc'[p] # pc[p]) => ReclaimEffect(p)]_vars

StaleRowReclaimed ==
    /\ ReclaimedToday # {}
    /\ \E k \in jobs : k.job_date = job_date - 1 /\ k.status = "running"
                       /\ now - k.start_time > StaleHours

\* C4: without a fault, the lock check denies exactly when the running-record
\* query finds a running row of the job date, and otherwise grants, whatever
\* completed or failed rows there are.
AcquireOutcome(p) ==
    CASE pc[p] = "lock_running" ->
            IF RunningToday # {}
            THEN lock'[p] = "denied"
            ELSE lock'[p] = "none" /\ pc'[p] = "lock_completed"
      [] pc[p] = "lock_completed" -> lock'[p] = "granted"
      [] OTHER -> lock'[p] = "none"

GrantedIffNoRunning ==
    [][\A p \in Procs :
          (pc[p] \in LockPcs /\ pc'[p] # pc[p] /\ faulted'[p] = faulted[p])
             => AcquireOutcome(p)]_vars

DeniedByFreshRow ==
    \E p \in Procs :
       /\ lock[p] = "denied" /\ faulted[p] = {}
       /\ \E j \in RunningToday : now - j.start_time = StaleHours /\ RunningToday = {j}

\* C5: an invocation whose lock check met a fault was denied, has returned
\* failure and has created no row.
FaultInCheckDenies ==
    \A p \in Procs :
       "check_job_lock" \in faulted[p]
          => /\ lock[p] = "denied"
             /\ pc[p] = "done"
             /\ ~success[p]
             /\ job_id[p] = NoJob

CheckFaulted ==
    \E p \in Procs : "check_job_lock" \in faulted[p] /\ pc[p] = "done" /\ conn[p] = "closed"

\* C6: a run that created its row and met no store fault has returned success
\* and its row is completed with the number of leads whose scoring did not
\* raise.
FaultingLeads ==
    {i \in 1..Len(raw_leads) : raw_leads[i].company = None \/ raw_leads[i].website = None}

PerLeadIsolation ==
    \A p \in Procs :
       (pc[p] = "done" /\ job_id[p] # NoJob /\ faulted[p] = {})
          => /\ success[p]
             /\ \E j \in jobs :
                   /\ j.id = job_id[p]
                   /\ j.status = "completed"
                   /\ j.leads_processed = Len(raw_leads) - Cardinality(FaultingLeads)

RunSkippedALead ==
    \E p \in Procs :
       /\ pc[p] = "done" /\ success[p] /\ faulted[p] = {}
       /\ Len(raw_leads) = 2 /\ Cardinality(FaultingLeads) = 1
       /\ \E j \in CompletedToday : j.id = job_id[p] /\ j.leads_processed = 1

\* C7: a run in which an exception escaped update_lead_scores after k leads
\* had been scored has returned failure and, its finalizing write having
\* succeeded, its row is failed with leads_processed = k.
FailedRunRecordsPartialCount ==
    \A p \in Procs :
       (pc[p] = "done" /\ "update_lead_scores" \in faulted[p] /\ "complete_job" \notin faulted[p])
          => /\ ~success[p]
             /\ \E j \in jobs :
                   /\ j.id = job_id[p]
                   /\ j.status = "failed"
                   /\ j.leads_processed = count[p]

\* C8: the exit code of a finished run is 0 exactly when it connected, was
\* granted the lock, created its row and left update_lead_scores without an
\* exception, and is 1 otherwise.
ExitCodeZeroIffFullRun ==
    \A p \in Procs :
       pc[p] = "done"
          => /\ exit_code(p) \in {0, 1}
             /\ exit_code(p) = 0 <=>
                   /\ conn[p] # "none"
                   /\ lock[p] = "granted"
                   /\ job_id[p] # NoJob
                   /\ "create_job_record" \notin faulted[p]
                   /\ "update_lead_scores" \notin faulted[p]

ExitCodesSeen ==
    \E p, q \in Procs :
       /\ pc[p] = "done" /\ exit_code(p) = 0 /\ "complete_job" \in faulted[p]
       /\ pc[q] = "done" /\ exit_code(q) = 1 /\ lock[q] = "denied"

\* C9: a run that has returned holds no open connection; it has none at all
\* only when the three connection attempts failed.
NoOpenConnectionAfterRun ==
    \A p \in Procs :
       pc[p] = "done"
          => /\ conn[p] \notin {"open", "aborted"}
             /\ conn[p] = "none" <=> attempt[p] = max_retries

ClosedOnDenialAndSuccess ==
    \E p, q \in Procs :
       /\ pc[p] = "done" /\ lock[p] = "denied" /\ conn[p] = "closed"
       /\ pc[q] = "done" /\ success[q] /\ conn[q] = "closed"

\* C10 as stated: with the default configuration the lead whose website is
\* https://example.com and whose other fields are empty scores 3 + 8 = 11.
IsExampleLead ==
    /\ lead.website = ExampleLead.website
    /\ lead.company = <<>>
    /\ lead.email \in {<<>>, None}
    /\ lead.audit_score = 0

ExampleLeadScores11 ==
    (new_score # <<>> /\ IsExampleLead /\ scoring_config = default_config)
       => /\ new_score[1].ok
          /\ new_score[1].value = default_config["website_ssl_points"]
                                  + default_config["company_size_bonus"]
          /\ new_score[1].value = 11

\* C10: that lead, its company being the empty string, scores 3 + 8 + 5 = 16:
\* the estimate max(1, 10 * 0) = 1 lies within [1, 250], so
\* employee_count_points is added too.
ExampleLeadScores16 ==
    (new_score # <<>> /\ IsExampleLead /\ scoring_config = default_config)
       => /\ new_score[1].ok
          /\ new_score[1].value = default_config["website_ssl_points"]
                                  + default_config["company_size_bonus"]
                                  + default_config["employee_count_points"]
          /\ new_score[1].value = 16

ExampleLeadScored ==
    new_score # <<>> /\ IsExampleLead /\ scoring_config = default_config

\* C11: whatever the lead and the configuration, a score that the scoring
\* function returns is at least 0 and at most 100.
ScoreWithinBounds ==
    (new_score # <<>> /\ new_score[1].ok)
       => (0 <= new_score[1].value /\ new_score[1].value <= ScoreCap)

\* C12: after a load that read the config table, every parameter that the
\* scoring function reads has the parsed value of its override row when the
\* table has one that parses, and its default otherwise; after a load whose
\* read failed the configuration is exactly the defaults.
override_key(k) ==
    CASE k = "audit_score_threshold" -> "scoring_audit_score_threshold"
      [] k = "audit_score_points" -> "scoring_audit_score_points"
      [] k = "employee_count_min" -> "scoring_employee_count_min"
      [] k = "employee_count_max" -> "scoring_employee_count_max"
      [] k = "employee_count_points" -> "scoring_employee_count_points"
      [] k = "email_exists_points" -> "scoring_email_exists_points"
      [] k = "website_ssl_points" -> "scoring_website_ssl_points"
      [] k = "company_size_bonus" -> "scoring_company_size_bonus"

ReadParameters == DOMAIN default_config \ {"audit_score_weight"}

ParsedOverrides(k) ==
    {i \in 1..Len(config_rows) :
        config_rows[i].key = override_key(k) /\ float_parses(config_rows[i].value)}

OverriddenValue(k) ==
    IF ParsedOverrides(k) = {} THEN default_config[k]
    ELSE LET i == CHOOSE m \in ParsedOverrides(k) : \A n \in ParsedOverrides(k) : n <= m
         IN  float(config_rows[i].value)

LoadAppliesOverrides ==
    /\ load_result = "loaded"
          => \A k \in ReadParameters : scoring_config[k] = OverriddenValue(k)
    /\ load_result = "read_failed" => scoring_config = default_config

\* C13: a retention cleanup that meets no fault removes exactly the rows
\* whose job date lies more than 30 days before the current date, and no
\* other step of any invocation removes a row.
CleanupStep(p) == pc[p] = "cleanup" /\ pc'[p] = "finalize"

OnlyCleanupDeletesOldRows ==
    [][/\ \A p \in Procs :
             (CleanupStep(p) /\ faulted'[p] = faulted[p])
                => jobs' = {j \in jobs : ~(CurrentDate - j.job_date > RetentionDays)}
       /\ (\A p \in Procs : ~CleanupStep(p))
             => {j.id : j \in jobs} \subseteq {j.id : j \in jobs'}]_vars

RetentionBoundarySeen ==
    \E p \in Procs :
       /\ pc[p] = "finalize" /\ ~error[p] /\ "cleanup_old_jobs" \notin faulted[p]
       /\ ~ \E j \in jobs : CurrentDate - j.job_date = RetentionDays + 1
       /\ \E j \in jobs : CurrentDate - j.job_date = RetentionDays

\* C14: connect_db makes at most 3 attempts and stops at the first that
\* succeeds; it has slept 5 after the first failure and 10 after the second
\* and does not sleep after the third; it reports failure exactly when 3
\* attempts have failed; and every invocation leaves it.
BackoffSoFar(n) == SubSeq(<<5, 10>>, 1, n)

ConnectState(p) ==
    /\ pc[p] = "connect"
          => /\ attempt[p] \in 0..2
             /\ sleeps[p] = BackoffSoFar(attempt[p])
             /\ conn[p] = "none"
    /\ (pc[p] = "done" /\ conn[p] = "none")
          => /\ attempt[p] = 3
             /\ sleeps[p] = <<5, 10>>
             /\ ~success[p]
    /\ (pc[p] # "connect" /\ conn[p] # "none") => attempt[p] = 0

ConnectStep(p) ==
    pc[p] = "connect"
       => \/ pc'[p] = "connect" /\ attempt'[p] = attempt[p] + 1 /\ conn'[p] = "none"
          \/ pc'[p] = "lock_reclaim" /\ conn'[p] = "open"
          \/ pc'[p] = "done" /\ conn'[p] = "none" /\ attempt[p] = 2
          \/ pc'[p] = "connect" /\ attempt'[p] = attempt[p]

ConnectRetriesThenStops ==
    /\ [](\A p \in Procs : ConnectState(p))
    /\ [][\A p \in Procs : ConnectStep(p)]_vars
    /\ \A p \in Procs : <>(pc[p] # "connect")

ConnectExhaustedAndRecovered ==
    \E p, q \in Procs :
       /\ pc[p] = "done" /\ conn[p] = "none" /\ sleeps[p] = <<5, 10>>
       /\ pc[q] = "connect" /\ attempt[q] = 2 /\ sleeps[q] = <<5, 10>>

\* C15: a run whose retention cleanup faulted after its scoring had counted n
\* leads has returned success and its row is completed with
\* leads_processed = n.
CleanupFaultIsHarmless ==
    \A p \in Procs :
       (pc[p] = "done" /\ "cleanup_old_jobs" \in faulted[p])
          => /\ success[p]
             /\ \E j \in jobs :
                   /\ j.id = job_id[p]
                   /\ j.status = "completed"
                   /\ j.leads_processed = count[p]

\* C16: when a statement of the lock check after the reclaim, or the scoring,
\* faults, the rollback has nothing to undo: no reclaim of the invocation is
\* uncommitted, the table is left as it is (reclaimed rows stay failed), and
\* the row that the invocation inserted is still in the table.
LaterFailure(p) ==
    /\ faulted'[p] # faulted[p]
    /\ pc[p] \in {"lock_running", "lock_completed", "scoring"}

DurableStepsSurvive ==
    [][\A p \in Procs :
          LaterFailure(p)
             => /\ stale_rows[p] = {}
                /\ jobs' = jobs
                /\ pc[p] = "scoring"
                      => \E j \in jobs' : j.id = job_id[p] /\ j.job_date = job_date]_vars

ReclaimSurvivedDenial ==
    \E p \in Procs :
       /\ pc[p] = "done" /\ lock[p] = "denied" /\ "check_job_lock" \in faulted[p]
       /\ ReclaimedToday # {}
       /\ \A q \in Procs \ {p} : pc[q] = "connect" /\ attempt[q] = 0

\* C17: up to the point where it would create its row (connecting, checking
\* the lock), an invocation creates no row and finalizes none: each of its
\* steps leaves the table as it was, except that rows of the job date that
\* are running and stale may have become failed; and a run that has returned
\* from there, for want of a connection or of the lock, has no row.
BeforeRecordCreated(p) == pc[p] \in {"connect"} \cup LockPcs

Reclaimed(j) == [j EXCEPT !.status = "failed"]

AbortedRunFrame ==
    /\ [](\A p \in Procs :
             (pc[p] = "done" /\ (conn[p] = "none" \/ lock[p] = "denied"))
                => (job_id[p] = NoJob /\ ~success[p]))
    /\ [][\A p \in Procs :
             (BeforeRecordCreated(p) /\ (pc'[p] # pc[p] \/ attempt'[p] # attempt[p]))
                => /\ job_id'[p] = NoJob
                   /\ next_id' = next_id
                   /\ \A j \in jobs : j \in jobs' \/ (StaleNow(j) /\ Reclaimed(j) \in jobs')
                   /\ \A k \in jobs' :
                         k \in jobs \/ \E j \in jobs : StaleNow(j) /\ k = Reclaimed(j)]_vars

AbortedRunsSeen ==
    \E p, q \in Procs :
       /\ pc[p] = "done" /\ conn[p] = "none"
       /\ pc[q] = "done" /\ conn[q] = "closed" /\ lock[q] = "denied"
       /\ ReclaimedToday # {}
       /\ \A r \in Procs : job_id[r] = NoJob

\* C18: at no time are two invocations between the creation of their row and
\* the end of update_lead_scores.
NoTwoScoring == Cardinality({p \in Procs : pc[p] = "scoring"}) <= 1

\* C18, the case of the late invocation: no invocation is scoring beside one
\* whose row it has seen reclaimed as stale.
NoScoringBesideReclaimedRun ==
    \A p, q \in Procs :
       (p # q /\ pc[p] = "scoring" /\ pc[q] = "scoring")
          => ~ \E j \in ReclaimedToday : j.id = job_id[p]

\* C19: the row of a run that has returned after creating it is completed
\* when the run returned success and failed when it returned failure.
ReturnedRunLeavesTerminalStatus ==
    \A p \in Procs :
       (pc[p] = "done" /\ job_id[p] # NoJob /\ "create_job_record" \notin faulted[p])
          => \E j \in jobs :
                /\ j.id = job_id[p]
                /\ j.status = IF success[p] THEN "completed" ELSE "failed"

\* C20: no step changes the status of a row that is completed or failed.
TerminalStatusAbsorbing ==
    [][\A j \in jobs :
          j.status \in {"completed", "failed"}
             => \A k \in jobs' : k.id = j.id => k.status = j.status]_vars

====
